---- MODULE Spec2Model ----
(***************************************************************************)
(* The conditional evaluator of src/evaluators/IfStatement.js: evaluate    *)
(* and evaluateWithAbstractConditional, as a sequential state machine.     *)
(* One run of the machine is one call of evaluate on one if statement.     *)
(* The realm (bindings, properties, generator, created objects, path       *)
(* conditions, saved completion) is the state the call works on; log and   *)
(* applied record the calls the evaluator makes on its collaborators.      *)
(***************************************************************************)
EXTENDS Integers, Sequences, FiniteSets, TLC

(* ------------------------------ bounds --------------------------------- *)
\* concrete numbers a branch can produce or store: 1..NumValues
NumValues == 2
\* assumptions of enclosing conditionals already on the stack at the call
MaxDepth == 1

BindingKeys == {"y"}
PropertyKeys == {"o.p"}
Targets == {"none", "L"}

(* ------------------------------ values --------------------------------- *)
Empty == [tag |-> "empty", n |-> 0]
Undefined == [tag |-> "undefined", n |-> 0]
Num(i) == [tag |-> "num", n |-> i]
NumVals == {Num(i) : i \in 1..NumValues}
ConcreteVals == {Empty, Undefined} \cup NumVals
\* "if c then t else f", the abstract value a join builds
Conditional(c, t, f) == [tag |-> "cond", c |-> c, t |-> t, f |-> f]

(* ---------------------------- completions ------------------------------ *)
AbruptKinds == {"throw", "break", "joinedAbrupt"}
Normal(v) == [kind |-> "normal", value |-> v, target |-> "none"]
Abrupt(k, v, t) == [kind |-> k, value |-> v, target |-> t]
NoCompletion == [kind |-> "none", value |-> Empty, target |-> "none"]
IsAbrupt(c) == c.kind \in AbruptKinds
IsNormal(c) == c.kind = "normal"
IsPossiblyNormal(c) == c.kind = "possiblyNormal"

\* what a statement can complete with: a value (possibly none), a throw of a
\* value, or a break (whose value is the no-value marker) to a label or not
BranchCompletions ==
  {Normal(v) : v \in ConcreteVals}
    \cup {Abrupt("throw", v, "none") : v \in NumVals}
    \cup {Abrupt("break", Empty, t) : t \in Targets}

(* ------------------------------ effects -------------------------------- *)
Emit(node) == [tag |-> "emit", id |-> node]
PartialMaps(keys, vals) == UNION {[S -> vals] : S \in SUBSET keys}
Effects(c, g, b, p, o) ==
  [completion |-> c, gen |-> g, bindings |-> b, properties |-> p, created |-> o]
\* the effects a branch node can have; an object it stores into is one it created
NodeEffects(node) ==
  {Effects(c, g, b, p, IF DOMAIN p = {} THEN {} ELSE {node}) :
     c \in BranchCompletions, g \in {<<>>, <<Emit(node)>>},
     b \in PartialMaps(BindingKeys, NumVals),
     p \in PartialMaps(PropertyKeys, {Num(1)})}
NoEffects == Effects(NoCompletion, <<>>, <<>>, <<>>, {})

(* --------------------------- condition values -------------------------- *)
QueryResults == {"true", "false", "infeasible"}
ConditionValues ==
  {[tag |-> "concrete", truthy |-> t, mnbt |-> "true", mnbf |-> "true"] : t \in BOOLEAN}
    \cup {[tag |-> "abstract", truthy |-> FALSE, mnbt |-> a, mnbf |-> b] :
            a \in QueryResults, b \in QueryResults}
NoValue == [tag |-> "none", truthy |-> FALSE, mnbt |-> "true", mnbf |-> "true"]
CondName == "x"

VARIABLES
  pc,              \* the statement of evaluate the call is at
  ast,             \* the if statement: whether it has an alternate
  program,         \* what each branch node does when it is evaluated
  exprValue,       \* evaluate: exprValue / condValue
  stmtCompletion,  \* the completion of the branch evaluated directly
  thrown,          \* the exception in flight out of a scoped sandbox call
  eff1, eff2,      \* [compl1, gen1, ...] and [compl2, gen2, ...]
  joinedEffects,   \* evaluateWithAbstractConditional: joinedEffects
  completion,      \* evaluateWithAbstractConditional: completion
  outcome,         \* how the call ended: return, throw, infeasible, fault
  pathConditions,  \* realm.pathConditions
  depth0,          \* the length of realm.pathConditions when the call began
  bindings, properties, generator, createdObjects,  \* the real environment
  savedCompletion, \* realm.savedCompletion
  log,             \* the collaborator calls made so far, in order
  applied          \* the arguments applyEffects was called with, in order

vars == <<pc, ast, program, exprValue, stmtCompletion, thrown, eff1, eff2,
          joinedEffects, completion, outcome, pathConditions, depth0, bindings,
          properties, generator, createdObjects, savedCompletion, log, applied>>

realmVars == <<bindings, properties, generator, createdObjects>>
forkVars == <<thrown, eff1, eff2, joinedEffects, completion>>

OuterAssumption == [cond |-> "outer", truth |-> TRUE]
\* the pending record an earlier fork, on condition "w", left in the realm
EarlierCondName == "w"
EarlierSaved ==
  [kind |-> "possiblyNormal", value |-> Undefined, target |-> "none",
   joinCondition |-> EarlierCondName, normalWhen |-> TRUE,
   pending |-> Effects(Abrupt("throw", Num(1), "none"), <<>>, <<>>, <<>>, {})]
Original == Num(0)

Init ==
  /\ pc = "start"
  /\ ast \in [alternate : BOOLEAN]
  /\ program = <<>>
  /\ exprValue = NoValue
  /\ stmtCompletion = NoCompletion
  /\ thrown = "none"
  /\ eff1 = NoEffects
  /\ eff2 = NoEffects
  /\ joinedEffects = NoEffects
  /\ completion = NoCompletion
  /\ outcome = [type |-> "none", completion |-> NoCompletion]
  /\ \E d \in 0..MaxDepth : pathConditions = [i \in 1..d |-> OuterAssumption]
  /\ depth0 = Len(pathConditions)
  /\ bindings = [k \in BindingKeys |-> Original]
  /\ properties = [k \in PropertyKeys |-> Undefined]
  /\ generator = <<>>
  /\ createdObjects = {}
  /\ savedCompletion \in {NoCompletion, EarlierSaved}
  /\ log = <<>>
  /\ applied = <<>>

(* ------------------- collaborators (Realm, Path, Join) ----------------- *)
Override(f, d) == [k \in DOMAIN f |-> IF k \in DOMAIN d THEN d[k] ELSE f[k]]
\* one call on a collaborator: what was called, on what, at what stack depth,
\* and how it ended ("ok", or the signal it raised)
Call(op, node, result) ==
  [op |-> op, node |-> node, depth |-> Len(pathConditions), result |-> result]
Calls(op) == {i \in 1..Len(log) : log[i].op = op}
CallsOn(op, node) == {i \in 1..Len(log) : log[i].op = op /\ log[i].node = node}

\* To.ToBoolean on a concrete condition value
ToBoolean(v) == v.truthy

\* UpdateEmpty(realm, completion, value): replace the no-value marker
UpdateEmpty(c, d) == IF c.value = Empty THEN [c EXCEPT !.value = d] ELSE c

\* Path.withCondition / Path.withInverseCondition: the scoped push and pop
pushPathCondition(stack, truth) == Append(stack, [cond |-> CondName, truth |-> truth])
popPathCondition(stack) == SubSeq(stack, 1, Len(stack) - 1)

\* env.evaluateCompletion(node): the completion record, abrupt ones included
envEvaluateCompletion(e) == [raised |-> FALSE, completion |-> e.completion]
\* env.evaluate(node): a Value, or the abrupt completion raised by the callee
envEvaluate(e) == [raised |-> IsAbrupt(e.completion), completion |-> e.completion]

\* construct_empty_effects(realm)
construct_empty_effects == Effects(Normal(Empty), <<>>, <<>>, <<>>, {})

\* the real environment after the writes of e: direct evaluation of a node
\* and realm.applyEffects both end in these writes
Commit(e) ==
  /\ bindings' = Override(bindings, e.bindings)
  /\ properties' = Override(properties, e.properties)
  /\ generator' = generator \o e.gen
  /\ createdObjects' = createdObjects \cup e.created

\* Join.joinResults
joinResults(c, e1, e2) ==
  LET r1 == e1.completion
      r2 == e2.completion
  IN  IF IsAbrupt(r1) /\ IsAbrupt(r2)
        THEN IF r1.kind = r2.kind /\ r1.target = r2.target
               THEN Abrupt(r1.kind, Conditional(c, r1.value, r2.value), r1.target)
               ELSE [kind |-> "joinedAbrupt", value |-> Conditional(c, r1.value, r2.value),
                     target |-> "none", joinCondition |-> c,
                     consequent |-> r1, alternate |-> r2]
      ELSE IF IsAbrupt(r1)
        THEN [kind |-> "possiblyNormal", value |-> r2.value, target |-> "none",
              joinCondition |-> c, normalWhen |-> FALSE, pending |-> e1]
      ELSE IF IsAbrupt(r2)
        THEN [kind |-> "possiblyNormal", value |-> r1.value, target |-> "none",
              joinCondition |-> c, normalWhen |-> TRUE, pending |-> e2]
      ELSE Normal(Conditional(c, r1.value, r2.value))

\* the joined deltas of one map: every key either side wrote, the side that
\* did not write it contributing the value the realm holds
joinMaps(c, real, m1, m2) ==
  [k \in DOMAIN m1 \cup DOMAIN m2 |->
     Conditional(c, IF k \in DOMAIN m1 THEN m1[k] ELSE real[k],
                    IF k \in DOMAIN m2 THEN m2[k] ELSE real[k])]

joinGenerators(c, g1, g2) == << [tag |-> "if", c |-> c, t |-> g1, f |-> g2] >>

\* Join.joinEffects(realm, joinCondition, e1, e2)
joinEffects(c, e1, e2) ==
  LET result == joinResults(c, e1, e2)
  IN  IF IsPossiblyNormal(result)
        THEN \* the abrupt branch's effects stay inside the completion
             IF result.normalWhen
               THEN Effects(result, e1.gen, e1.bindings, e1.properties, e1.created)
               ELSE Effects(result, e2.gen, e2.bindings, e2.properties, e2.created)
        ELSE Effects(result, joinGenerators(c, e1.gen, e2.gen),
                     joinMaps(c, bindings, e1.bindings, e2.bindings),
                     joinMaps(c, properties, e1.properties, e2.properties),
                     e1.created \cup e2.created)

\* realm.composeWithSavedCompletion(completion): thread the straddling
\* completion into the realm's single pending record, answer its normal value
composeSaved(saved, c) ==
  IF saved = NoCompletion THEN c
  ELSE [kind |-> "possiblyNormal", value |-> c.value, target |-> "none",
        joinCondition |-> c.joinCondition, normalWhen |-> c.normalWhen,
        pending |-> c.pending, enclosing |-> saved]

(* ----------------------- the evaluator's own steps --------------------- *)
\* what a branch node does: fixed the first time the node is evaluated
Choices(node) == IF node \in DOMAIN program THEN {program[node]} ELSE NodeEffects(node)
Remember(node, e) == IF node \in DOMAIN program THEN program ELSE program @@ (node :> e)

Returned(c) == [type |-> "return", completion |-> c]
Threw(c) == [type |-> "throw", completion |-> c]
Raised(signal) == [type |-> signal, completion |-> NoCompletion]

\* mutant: the completion is returned or thrown without UpdateEmpty
CompleteNoUpdate(c) == IF IsAbrupt(c) THEN Threw(c) ELSE Returned(c)

\* invariant; UpdateEmpty; throw if abrupt; invariant; return
\* (lines 45-51, and again 57-63, 68-74, 104-110, 123-129)
Complete(c) ==
  LET n == UpdateEmpty(c, Undefined)
  IN  IF IsAbrupt(n) THEN Threw(n) ELSE Returned(n)

\* stmtCompletion = realm.intrinsics.undefined, then the common tail
NoBranch ==
  /\ stmtCompletion' = Normal(Undefined)
  /\ outcome' = Complete(Normal(Undefined))
  /\ UNCHANGED <<program, realmVars, log>>

\* stmtCompletion = env.evaluateCompletion(node, strictCode), then the tail
DirectCompletion(node) ==
  \E e \in Choices(node), r \in {"ok", "infeasible", "fault"} :
    /\ log' = Append(log, Call("evaluateCompletion", node, r))
    /\ IF r = "ok"
         THEN /\ program' = Remember(node, e)
              /\ Commit(e)
              /\ stmtCompletion' = envEvaluateCompletion(e).completion
              /\ outcome' = Complete(envEvaluateCompletion(e).completion)
         ELSE /\ outcome' = Raised(r)
              /\ UNCHANGED <<program, realmVars, stmtCompletion>>

\* stmtCompletion = env.evaluate(node, strictCode), then the tail; an abrupt
\* completion leaves env.evaluate as an exception and skips the tail
DirectEvaluate(node) ==
  \E e \in Choices(node), r \in {"ok", "infeasible", "fault"} :
    /\ log' = Append(log, Call("evaluate", node, r))
    /\ IF r = "ok"
         THEN /\ program' = Remember(node, e)
              /\ Commit(e)
              /\ IF envEvaluate(e).raised
                   THEN /\ outcome' = Threw(envEvaluate(e).completion)
                        /\ UNCHANGED stmtCompletion
                   ELSE /\ stmtCompletion' = envEvaluate(e).completion
                        /\ outcome' = Complete(envEvaluate(e).completion)
         ELSE /\ outcome' = Raised(r)
              /\ UNCHANGED <<program, realmVars, stmtCompletion>>

\* lines 26-28: exprRef = env.evaluate(ast.test); exprValue = GetConditionValue
\* the test expression yields a value, or its evaluation raises
EvaluateTest ==
  /\ pc = "start"
  /\ \E r \in {"ok", "throw", "infeasible", "fault"} :
       /\ log' = Append(log, Call("evaluate", "test", r))
       /\ IF r = "ok"
         THEN /\ exprValue' \in ConditionValues
              /\ pc' = "test"
              /\ UNCHANGED outcome
         ELSE /\ outcome' = IF r = "throw" THEN Threw(Abrupt("throw", Num(1), "none"))
                            ELSE Raised(r)
              /\ pc' = "done"
              /\ UNCHANGED exprValue
  /\ UNCHANGED <<ast, program, stmtCompletion, forkVars, pathConditions,
                 depth0, realmVars, savedCompletion, applied>>

\* lines 30-52: the concrete condition
ConcreteCondition ==
  /\ pc = "test"
  /\ exprValue.tag = "concrete"
  /\ IF ToBoolean(exprValue) THEN DirectCompletion("consequent")
     ELSE IF ast.alternate THEN DirectCompletion("alternate")
     ELSE NoBranch
  /\ pc' = "done"
  /\ UNCHANGED <<ast, exprValue, forkVars, pathConditions, depth0, savedCompletion,
                 applied>>

\* mutant: mightNotBeFalse is asked whatever mightNotBeTrue answered
MightNotBeTrueNotDeciding ==
  /\ pc = "test"
  /\ exprValue.tag = "abstract"
  /\ log' = Append(log, Call("mightNotBeTrue", "condition", exprValue.mnbt))
  /\ pc' = IF exprValue.mnbt = "infeasible" THEN "done" ELSE "mightNotBeFalse"
  /\ outcome' = IF exprValue.mnbt = "infeasible" THEN Raised("infeasible") ELSE outcome
  /\ UNCHANGED <<ast, program, exprValue, stmtCompletion, forkVars, pathConditions,
                 depth0, realmVars, savedCompletion, applied>>

\* line 55: exprValue.mightNotBeTrue()
MightNotBeTrue ==
  /\ pc = "test"
  /\ exprValue.tag = "abstract"
  /\ log' = Append(log, Call("mightNotBeTrue", "condition", exprValue.mnbt))
  /\ pc' = CASE exprValue.mnbt = "false" -> "consequent"
             [] exprValue.mnbt = "true" -> "mightNotBeFalse"
             [] OTHER -> "done"
  /\ outcome' = IF exprValue.mnbt = "infeasible" THEN Raised("infeasible") ELSE outcome
  /\ UNCHANGED <<ast, program, exprValue, stmtCompletion, forkVars, pathConditions,
                 depth0, realmVars, savedCompletion, applied>>

\* lines 56-63: the condition is always true
StaticConsequent ==
  /\ pc = "consequent"
  /\ DirectEvaluate("consequent")
  /\ pc' = "done"
  /\ UNCHANGED <<ast, exprValue, forkVars, pathConditions, depth0, savedCompletion,
                 applied>>

\* mutant: the result of mightNotBeFalse is not looked at, the call forks
MightNotBeFalseIgnored ==
  /\ pc = "mightNotBeFalse"
  /\ log' = Append(log, Call("mightNotBeFalse", "condition", exprValue.mnbf))
  /\ pc' = IF exprValue.mnbf = "infeasible" THEN "done" ELSE "fork"
  /\ outcome' = IF exprValue.mnbf = "infeasible" THEN Raised("infeasible") ELSE outcome
  /\ UNCHANGED <<ast, program, exprValue, stmtCompletion, forkVars, pathConditions,
                 depth0, realmVars, savedCompletion, applied>>

\* line 64: exprValue.mightNotBeFalse()
MightNotBeFalse ==
  /\ pc = "mightNotBeFalse"
  /\ log' = Append(log, Call("mightNotBeFalse", "condition", exprValue.mnbf))
  /\ pc' = CASE exprValue.mnbf = "false" -> "alternate"
             [] exprValue.mnbf = "true" -> "fork"
             [] OTHER -> "done"
  /\ outcome' = IF exprValue.mnbf = "infeasible" THEN Raised("infeasible") ELSE outcome
  /\ UNCHANGED <<ast, program, exprValue, stmtCompletion, forkVars, pathConditions,
                 depth0, realmVars, savedCompletion, applied>>

\* mutant: the always-false condition evaluates the consequent
StaticAlternateWrongBranch ==
  /\ pc = "alternate"
  /\ DirectEvaluate("consequent")
  /\ pc' = "done"
  /\ UNCHANGED <<ast, exprValue, forkVars, pathConditions, depth0, savedCompletion,
                 applied>>

\* lines 65-74: the condition is always false
StaticAlternate ==
  /\ pc = "alternate"
  /\ IF ast.alternate THEN DirectEvaluate("alternate") ELSE NoBranch
  /\ pc' = "done"
  /\ UNCHANGED <<ast, exprValue, forkVars, pathConditions, depth0, savedCompletion,
                 applied>>

(* ------------------- evaluateWithAbstractConditional ------------------- *)
\* line 92: Path.withCondition(condValue, ...) pushes the assumption
WithConditionEnter ==
  /\ pc = "fork"
  /\ pathConditions' = pushPathCondition(pathConditions, TRUE)
  /\ log' = Append(log, Call("push", "true", "ok"))
  /\ pc' = "sandbox1"
  /\ UNCHANGED <<ast, program, exprValue, stmtCompletion, forkVars, outcome, depth0,
                 realmVars, savedCompletion, applied>>

\* the scoped call: the Effects of the node, or a signal raised under the
\* assumption; the real environment is not written
Sandbox(node, empty) ==
  \E e \in (IF empty THEN {construct_empty_effects} ELSE Choices(node)),
     r \in {"ok", "infeasible", "fault"} :
    /\ log' = Append(log, Call(IF empty THEN "construct_empty_effects"
                                        ELSE "evaluateNodeForEffects", node, r))
    /\ thrown' = IF r = "ok" THEN "none" ELSE r
    /\ IF r = "ok"
         THEN /\ program' = IF empty THEN program ELSE Remember(node, e)
              /\ IF node = "consequent"
                   THEN eff1' = e /\ UNCHANGED eff2
                   ELSE eff2' = e /\ UNCHANGED eff1
         ELSE UNCHANGED <<program, eff1, eff2>>

\* mutant: the consequent is evaluated under the assumption without a
\* sandbox, so its writes reach the real environment
SandboxConsequentUnsandboxed ==
  /\ pc = "sandbox1"
  /\ Sandbox("consequent", FALSE)
  /\ IF thrown' = "none" THEN Commit(eff1') ELSE UNCHANGED realmVars
  /\ pc' = "exit1"
  /\ UNCHANGED <<ast, exprValue, stmtCompletion, joinedEffects, completion, outcome,
                 pathConditions, depth0, savedCompletion, applied>>

\* line 93: realm.evaluateNodeForEffects(consequent, strictCode, env)
SandboxConsequent ==
  /\ pc = "sandbox1"
  /\ Sandbox("consequent", FALSE)
  /\ pc' = "exit1"
  /\ UNCHANGED <<ast, exprValue, stmtCompletion, joinedEffects, completion, outcome,
                 pathConditions, depth0, realmVars, savedCompletion, applied>>

\* mutant: the assumption is popped on the normal exit only
WithConditionExitNoFinally ==
  /\ pc = "exit1"
  /\ pathConditions' = IF thrown = "none" THEN popPathCondition(pathConditions)
                       ELSE pathConditions
  /\ log' = Append(log, Call("pop", "true", "ok"))
  /\ pc' = IF thrown = "none" THEN "fork2" ELSE "catch1"
  /\ UNCHANGED <<ast, program, exprValue, stmtCompletion, forkVars, outcome, depth0,
                 realmVars, savedCompletion, applied>>

\* lines 92-96: withCondition pops on every exit; then the catch clause or on
WithConditionExit ==
  /\ pc = "exit1"
  /\ pathConditions' = popPathCondition(pathConditions)
  /\ log' = Append(log, Call("pop", "true", "ok"))
  /\ pc' = IF thrown = "none" THEN "fork2" ELSE "catch1"
  /\ UNCHANGED <<ast, program, exprValue, stmtCompletion, forkVars, outcome, depth0,
                 realmVars, savedCompletion, applied>>

\* mutant: no catch clause, the infeasible-path signal leaves the call
CatchInfeasible1Missing ==
  /\ pc = "catch1"
  /\ thrown = "infeasible"
  /\ outcome' = Raised(thrown)
  /\ thrown' = "none"
  /\ pc' = "done"
  /\ UNCHANGED <<ast, program, exprValue, stmtCompletion, eff1, eff2, joinedEffects,
                 completion, pathConditions, depth0, realmVars, savedCompletion, log,
                 applied>>

\* lines 96-111: the consequent is infeasible, evaluate the alternate directly
CatchInfeasible1 ==
  /\ pc = "catch1"
  /\ thrown = "infeasible"
  /\ IF ast.alternate THEN DirectCompletion("alternate") ELSE NoBranch
  /\ thrown' = "none"
  /\ pc' = "done"
  /\ UNCHANGED <<ast, exprValue, eff1, eff2, joinedEffects, completion, pathConditions,
                 depth0, savedCompletion, applied>>

\* mutant: the catch clause does not look at what was thrown and falls
\* back to the alternate for any error
Rethrow1Swallowed ==
  /\ pc = "catch1"
  /\ thrown # "infeasible"
  /\ IF ast.alternate THEN DirectCompletion("alternate") ELSE NoBranch
  /\ thrown' = "none"
  /\ pc' = "done"
  /\ UNCHANGED <<ast, exprValue, eff1, eff2, joinedEffects, completion, pathConditions,
                 depth0, savedCompletion, applied>>

\* line 112: throw e
Rethrow1 ==
  /\ pc = "catch1"
  /\ thrown # "infeasible"
  /\ outcome' = Raised(thrown)
  /\ thrown' = "none"
  /\ pc' = "done"
  /\ UNCHANGED <<ast, program, exprValue, stmtCompletion, eff1, eff2, joinedEffects,
                 completion, pathConditions, depth0, realmVars, savedCompletion, log,
                 applied>>

\* mutant: the alternate is explored with Path.withCondition again
WithInverseConditionEnterNotInverse ==
  /\ pc = "fork2"
  /\ pathConditions' = pushPathCondition(pathConditions, TRUE)
  /\ log' = Append(log, Call("push", "true", "ok"))
  /\ pc' = "sandbox2"
  /\ UNCHANGED <<ast, program, exprValue, stmtCompletion, forkVars, outcome, depth0,
                 realmVars, savedCompletion, applied>>

\* line 117: Path.withInverseCondition(condValue, ...) pushes the assumption
WithInverseConditionEnter ==
  /\ pc = "fork2"
  /\ pathConditions' = pushPathCondition(pathConditions, FALSE)
  /\ log' = Append(log, Call("push", "false", "ok"))
  /\ pc' = "sandbox2"
  /\ UNCHANGED <<ast, program, exprValue, stmtCompletion, forkVars, outcome, depth0,
                 realmVars, savedCompletion, applied>>

\* line 118: alternate ? evaluateNodeForEffects(alternate) : construct_empty_effects
SandboxAlternate ==
  /\ pc = "sandbox2"
  /\ Sandbox("alternate", ~ast.alternate)
  /\ pc' = "exit2"
  /\ UNCHANGED <<ast, exprValue, stmtCompletion, joinedEffects, completion, outcome,
                 pathConditions, depth0, realmVars, savedCompletion, applied>>

\* mutant: the inverse assumption is popped on the normal exit only
WithInverseConditionExitNoFinally ==
  /\ pc = "exit2"
  /\ pathConditions' = IF thrown = "none" THEN popPathCondition(pathConditions)
                       ELSE pathConditions
  /\ log' = Append(log, Call("pop", "false", "ok"))
  /\ pc' = IF thrown = "none" THEN "join" ELSE "catch2"
  /\ UNCHANGED <<ast, program, exprValue, stmtCompletion, forkVars, outcome, depth0,
                 realmVars, savedCompletion, applied>>

\* lines 117-121: withInverseCondition pops on every exit
WithInverseConditionExit ==
  /\ pc = "exit2"
  /\ pathConditions' = popPathCondition(pathConditions)
  /\ log' = Append(log, Call("pop", "false", "ok"))
  /\ pc' = IF thrown = "none" THEN "join" ELSE "catch2"
  /\ UNCHANGED <<ast, program, exprValue, stmtCompletion, forkVars, outcome, depth0,
                 realmVars, savedCompletion, applied>>

\* mutant: the Effects captured from the consequent are applied instead of
\* evaluating the consequent again
CatchInfeasible2ReusesEffects ==
  /\ pc = "catch2"
  /\ thrown = "infeasible"
  /\ Commit(eff1)
  /\ applied' = Append(applied, eff1)
  /\ log' = Append(log, Call("applyEffects", "joinedEffects", "ok"))
  /\ stmtCompletion' = eff1.completion
  /\ outcome' = Complete(eff1.completion)
  /\ thrown' = "none"
  /\ pc' = "done"
  /\ UNCHANGED <<ast, program, exprValue, eff1, eff2, joinedEffects, completion,
                 pathConditions, depth0, savedCompletion>>

\* lines 121-130: the alternate is infeasible, evaluate the consequent directly
CatchInfeasible2 ==
  /\ pc = "catch2"
  /\ thrown = "infeasible"
  /\ DirectEvaluate("consequent")
  /\ thrown' = "none"
  /\ pc' = "done"
  /\ UNCHANGED <<ast, exprValue, eff1, eff2, joinedEffects, completion, pathConditions,
                 depth0, savedCompletion, applied>>

\* line 131: throw e
Rethrow2 ==
  /\ pc = "catch2"
  /\ thrown # "infeasible"
  /\ outcome' = Raised(thrown)
  /\ thrown' = "none"
  /\ pc' = "done"
  /\ UNCHANGED <<ast, program, exprValue, stmtCompletion, eff1, eff2, joinedEffects,
                 completion, pathConditions, depth0, realmVars, savedCompletion, log,
                 applied>>

\* mutant: the two Effects are passed to joinEffects in the wrong order
JoinEffectsSwapped ==
  /\ pc = "join"
  /\ joinedEffects' = joinEffects(CondName, eff2, eff1)
  /\ completion' = joinedEffects'.completion
  /\ log' = Append(log, Call("joinEffects", "both", "ok"))
  /\ pc' = "compose"
  /\ UNCHANGED <<ast, program, exprValue, stmtCompletion, thrown, eff1, eff2, outcome,
                 pathConditions, depth0, realmVars, savedCompletion, applied>>

\* lines 136-142: joinedEffects = Join.joinEffects(...); completion = joinedEffects[0]
JoinEffects ==
  /\ pc = "join"
  /\ joinedEffects' = joinEffects(CondName, eff1, eff2)
  /\ completion' = joinedEffects'.completion
  /\ log' = Append(log, Call("joinEffects", "both", "ok"))
  /\ pc' = "compose"
  /\ UNCHANGED <<ast, program, exprValue, stmtCompletion, thrown, eff1, eff2, outcome,
                 pathConditions, depth0, realmVars, savedCompletion, applied>>

\* mutant: the PossiblyNormalCompletion is not composed
ComposeCompletionSkipped ==
  /\ pc = "compose"
  /\ pc' = "apply"
  /\ UNCHANGED <<ast, program, exprValue, stmtCompletion, forkVars, outcome,
                 pathConditions, depth0, realmVars, savedCompletion, log, applied>>

\* mutant: composeWithSavedCompletion is called whatever the completion is
ComposeCompletionAlways ==
  /\ pc = "compose"
  /\ IF IsPossiblyNormal(completion)
       THEN /\ savedCompletion' = composeSaved(savedCompletion, completion)
            /\ completion' = Normal(completion.value)
       ELSE UNCHANGED <<savedCompletion, completion>>
  /\ log' = Append(log, Call("composeWithSavedCompletion", "completion", "ok"))
  /\ pc' = "apply"
  /\ UNCHANGED <<ast, program, exprValue, stmtCompletion, thrown, eff1, eff2,
                 joinedEffects, outcome, pathConditions, depth0, realmVars, applied>>

\* lines 143-149: a PossiblyNormalCompletion is composed with the saved one
ComposeCompletion ==
  /\ pc = "compose"
  /\ IF IsPossiblyNormal(completion)
       THEN /\ savedCompletion' = composeSaved(savedCompletion, completion)
            /\ completion' = Normal(completion.value)
            /\ log' = Append(log, Call("composeWithSavedCompletion", "completion", "ok"))
       ELSE UNCHANGED <<savedCompletion, completion, log>>
  /\ pc' = "apply"
  /\ UNCHANGED <<ast, program, exprValue, stmtCompletion, thrown, eff1, eff2,
                 joinedEffects, outcome, pathConditions, depth0, realmVars, applied>>

\* mutant: the consequent's own Effects are applied
ApplyEffectsOfBranch ==
  /\ pc = "apply"
  /\ Commit(eff1)
  /\ applied' = Append(applied, eff1)
  /\ log' = Append(log, Call("applyEffects", "joinedEffects", "ok"))
  /\ pc' = "finish"
  /\ UNCHANGED <<ast, program, exprValue, stmtCompletion, forkVars, outcome,
                 pathConditions, depth0, savedCompletion>>

\* mutant: an abrupt joined completion is on its way out before the joined
\* Effects are applied
ApplyEffectsUnlessAbrupt ==
  /\ pc = "apply"
  /\ IF IsAbrupt(completion)
       THEN UNCHANGED <<realmVars, applied, log>>
       ELSE /\ Commit(joinedEffects)
            /\ applied' = Append(applied, joinedEffects)
            /\ log' = Append(log, Call("applyEffects", "joinedEffects", "ok"))
  /\ pc' = "finish"
  /\ UNCHANGED <<ast, program, exprValue, stmtCompletion, forkVars, outcome,
                 pathConditions, depth0, savedCompletion>>

\* line 152: realm.applyEffects(joinedEffects)
ApplyEffects ==
  /\ pc = "apply"
  /\ Commit(joinedEffects)
  /\ applied' = Append(applied, joinedEffects)
  /\ log' = Append(log, Call("applyEffects", "joinedEffects", "ok"))
  /\ pc' = "finish"
  /\ UNCHANGED <<ast, program, exprValue, stmtCompletion, forkVars, outcome,
                 pathConditions, depth0, savedCompletion>>

\* lines 155-157: throw the completion if abrupt, else return it
ReturnOrThrow ==
  /\ pc = "finish"
  /\ outcome' = IF IsAbrupt(completion) THEN Threw(completion) ELSE Returned(completion)
  /\ pc' = "done"
  /\ UNCHANGED <<ast, program, exprValue, stmtCompletion, forkVars, pathConditions,
                 depth0, realmVars, savedCompletion, log, applied>>

Next ==
  \/ EvaluateTest
  \/ ConcreteCondition
  \/ MightNotBeTrue
  \/ StaticConsequent
  \/ MightNotBeFalse
  \/ StaticAlternate
  \/ WithConditionEnter
  \/ SandboxConsequent
  \/ WithConditionExit
  \/ CatchInfeasible1
  \/ Rethrow1
  \/ WithInverseConditionEnter
  \/ SandboxAlternate
  \/ WithInverseConditionExit
  \/ CatchInfeasible2
  \/ Rethrow2
  \/ JoinEffects
  \/ ComposeCompletion
  \/ ApplyEffects
  \/ ReturnOrThrow

Spec == Init /\ [][Next]_vars

(* ------------------------------- claims -------------------------------- *)
SandboxOps == {"evaluateNodeForEffects", "construct_empty_effects"}
DirectOps == {"evaluate", "evaluateCompletion"}
Branches == {"consequent", "alternate"}
\* the calls that evaluated a branch in the real environment
DirectCalls == {i \in 1..Len(log) : log[i].op \in DirectOps /\ log[i].node \in Branches}
\* the scoped calls that ended with the infeasible-path signal
InfeasibleSandboxCalls ==
  {i \in 1..Len(log) : log[i].op \in SandboxOps /\ log[i].result = "infeasible"}
Ended == pc = "done"
InitialStack == [i \in 1..depth0 |-> OuterAssumption]

\* C1: when a call of the evaluator has ended, however it ended (a returned
\* Value, a raised Abrupt completion, a recovered infeasible-path signal, a
\* rethrown error), the path-condition stack is the stack the call began with.
C1_StackBalanced == Ended => pathConditions = InitialStack

\* C1 witness: a call that began under an enclosing assumption, lost a branch
\* to the infeasible-path signal, and ended by raising an Abrupt completion
C1_Witness ==
  /\ Ended
  /\ depth0 > 0
  /\ InfeasibleSandboxCalls # {}
  /\ outcome.type = "throw"

\* C2: applyEffects is called at most once in a call of the evaluator, its
\* argument is the joined Effects and not the Effects captured from either
\* branch, and nothing is applied once a branch was found infeasible or the
\* fork was abandoned by a rethrown error.
C2_ApplyOnceJoinedOnly ==
  /\ Len(applied) <= 1
  /\ Cardinality(Calls("applyEffects")) = Len(applied)
  /\ \A i \in 1..Len(applied) :
       /\ applied[i] = joinedEffects
       /\ applied[i] # eff1
       /\ applied[i] # eff2
       /\ Calls("joinEffects") # {}
  /\ (\E i \in 1..Len(log) : log[i].op \in SandboxOps /\ log[i].result # "ok")
       => applied = <<>>

\* C2 witness: a fork that ran both branches, joined them and applied once
C2_Witness ==
  /\ Ended
  /\ Len(applied) = 1
  /\ DOMAIN eff1.bindings # {}
  /\ DOMAIN eff2.bindings # {}

\* C3 as stated: whichever of the named points raised the infeasible-path
\* signal (a mightNotBeTrue / mightNotBeFalse query, either sandbox, a direct
\* evaluation of a branch), the call ends by returning a Value or raising an
\* Abrupt completion, never by propagating the signal.
C3_NeverEscapes ==
  (Ended /\ \E i \in 1..Len(log) :
              /\ log[i].result = "infeasible"
              /\ log[i].op \in SandboxOps \cup {"mightNotBeTrue", "mightNotBeFalse"}
                                \/ (log[i].op \in DirectOps /\ log[i].node \in Branches))
    => outcome.type \in {"return", "throw"}

\* C3 amended: an infeasible-path signal raised inside either scoped sandbox
\* call is caught and the other branch is evaluated directly; a call ends with
\* the signal only when its last collaborator call raised it and that call was
\* the test evaluation, a mightNotBeTrue / mightNotBeFalse query or a direct
\* evaluation of a branch.
C3_SandboxSignalCaught ==
  Ended =>
    /\ outcome.type = "infeasible" =>
         /\ log[Len(log)].result = "infeasible"
         /\ log[Len(log)].op \in DirectOps \cup {"mightNotBeTrue", "mightNotBeFalse"}
    /\ \A i \in InfeasibleSandboxCalls :
         /\ i < Len(log)
         /\ log[i + 1].op = "pop"
         /\ \/ outcome.type \in {"return", "throw"}
            \/ log[Len(log)].op \in DirectOps /\ log[Len(log)].result = outcome.type

\* C3 witness: the consequent's sandbox raised the signal and the call returned
C3_Witness ==
  /\ Ended
  /\ \E i \in InfeasibleSandboxCalls : log[i].node = "consequent"
  /\ outcome.type = "return"

\* the branch a concrete condition selects, and what evaluating it yields
Selected ==
  IF ToBoolean(exprValue) THEN "consequent"
  ELSE IF ast.alternate THEN "alternate" ELSE "none"
\* (without a branch the code's completion is realm.intrinsics.undefined)
RawCompletion(node) ==
  IF node = "none" THEN Normal(Undefined) ELSE program[node].completion
\* c with the no-value marker replaced by undefined, kind and target kept
Normalized(c) ==
  [kind |-> c.kind, value |-> IF c.value = Empty THEN Undefined ELSE c.value,
   target |-> c.target]
ForkCalls ==
  {i \in 1..Len(log) :
     log[i].op \in SandboxOps \cup {"push", "pop", "joinEffects", "applyEffects",
                                    "composeWithSavedCompletion"}}
Completed == Ended /\ outcome.type \in {"return", "throw"}
\* the branches evaluated directly are exactly: node, once, by op
OnlyDirect(node, op) ==
  IF node = "none" THEN DirectCalls = {}
  ELSE /\ Cardinality(DirectCalls) = 1
       /\ \A i \in DirectCalls : log[i].node = node /\ log[i].op = op

\* C4 as stated: for a concrete condition the call ends with the very
\* completion of the selected branch (kind, value and target identical), one
\* branch is evaluated, and nothing of the fork (push, sandbox, join, apply)
\* happens.
C4_ConcreteIdentical ==
  (exprValue.tag = "concrete" /\ Completed) =>
    /\ outcome.completion = RawCompletion(Selected)
    /\ OnlyDirect(Selected, "evaluateCompletion")
    /\ ForkCalls = {}

\* C4 amended: for a concrete condition the call ends with the completion of
\* the selected branch in which the no-value marker is replaced by undefined:
\* kind and target are those of the direct evaluation, the value is too unless
\* it is the no-value marker; an Abrupt completion is raised, a Normal one
\* returned; exactly one branch is evaluated (none when the condition is falsy
\* and there is no alternate) and nothing of the fork happens.
C4_ConcreteNormalized ==
  exprValue.tag = "concrete" =>
    /\ ForkCalls = {}
    /\ applied = <<>>
    /\ Completed =>
         /\ outcome.completion = Normalized(RawCompletion(Selected))
         /\ outcome.type = IF IsAbrupt(RawCompletion(Selected)) THEN "throw" ELSE "return"
         /\ OnlyDirect(Selected, "evaluateCompletion")

\* C4 witness: a truthy concrete condition whose consequent completes with the
\* no-value marker
C4_Witness ==
  /\ Completed
  /\ exprValue.tag = "concrete"
  /\ ToBoolean(exprValue)
  /\ program["consequent"].completion = Normal(Empty)

Other(node) ==
  IF node = "consequent" THEN (IF ast.alternate THEN "alternate" ELSE "none")
  ELSE "consequent"

\* C6: when a sandboxed branch of a fork raises infeasible-path, the other
\* branch is evaluated directly exactly once, joinEffects and applyEffects are
\* never called, the call returns or raises the normalized result of that
\* direct evaluation, and an infeasible consequent means the alternate's
\* sandbox is never invoked.
C6_FallbackNormalized ==
  \A i \in InfeasibleSandboxCalls :
    /\ Calls("joinEffects") = {}
    /\ applied = <<>>
    /\ log[i].node = "consequent" =>
         CallsOn("evaluateNodeForEffects", "alternate") = {}
    /\ Completed =>
         /\ Cardinality(DirectCalls) = (IF Other(log[i].node) = "none" THEN 0 ELSE 1)
         /\ \A j \in DirectCalls : log[j].node = Other(log[i].node)
         /\ outcome.completion = Normalized(RawCompletion(Other(log[i].node)))

\* C7: once mightNotBeTrue has answered false the consequent is the branch
\* evaluated, once mightNotBeFalse has answered false the alternate (or
\* nothing, without one) is; either way directly in the real environment,
\* with no push, sandbox call, join, compose or applyEffects.
C7_StaticallyResolved ==
  /\ (\E i \in Calls("mightNotBeTrue") : log[i].result = "false") =>
       /\ ForkCalls = {}
       /\ applied = <<>>
       /\ \A j \in DirectCalls : log[j].depth = depth0
       /\ Ended => OnlyDirect("consequent", "evaluate")
  /\ (\E i \in Calls("mightNotBeFalse") : log[i].result = "false") =>
       /\ ForkCalls = {}
       /\ applied = <<>>
       /\ \A j \in DirectCalls : log[j].depth = depth0
       /\ Ended => OnlyDirect(IF ast.alternate THEN "alternate" ELSE "none", "evaluate")

\* C7 witness: mightNotBeFalse answered false and the alternate's writes are
\* in the real environment
C7_Witness ==
  /\ Ended
  /\ \E i \in Calls("mightNotBeFalse") : log[i].result = "false"
  /\ CallsOn("evaluate", "alternate") # {}
  /\ \E k \in BindingKeys : bindings[k] # Original

\* C8: when a fork joins one branch that completed abruptly with one that
\* completed normally with value v, the joined completion is PossiblyNormal,
\* composeWithSavedCompletion is called once with it, the realm's saved
\* completion holds the abrupt branch's Effects, and the call does not raise:
\* it returns v.
C8_PossiblyNormalReturns ==
  (Ended /\ Calls("joinEffects") # {}
         /\ IsAbrupt(eff1.completion) # IsAbrupt(eff2.completion)) =>
    LET abruptSide == IF IsAbrupt(eff1.completion) THEN eff1 ELSE eff2
        normalSide == IF IsAbrupt(eff1.completion) THEN eff2 ELSE eff1
    IN  /\ IsPossiblyNormal(joinedEffects.completion)
        /\ outcome.type = "return"
        /\ outcome.completion.value = normalSide.completion.value
        /\ Cardinality(Calls("composeWithSavedCompletion")) = 1
        /\ IsPossiblyNormal(savedCompletion)
        /\ savedCompletion.pending = abruptSide
        /\ savedCompletion.joinCondition = CondName

\* C8 witness: the consequent threw, the alternate completed with 2, and the
\* call returned 2
C8_Witness ==
  /\ Ended
  /\ Calls("joinEffects") # {}
  /\ eff1.completion.kind = "throw"
  /\ eff2.completion = Normal(Num(2))
  /\ DOMAIN eff1.bindings # {}
  /\ outcome = Returned(Normal(Num(2)))

\* what a joined value, map, generator and completion stand for once the
\* condition is known to be b
SpecializeValue(v, b) ==
  IF v.tag = "cond" /\ v.c = CondName THEN (IF b THEN v.t ELSE v.f) ELSE v
SpecializeMap(m, b) == [k \in DOMAIN m |-> SpecializeValue(m[k], b)]
RECURSIVE SpecializeGenerator(_, _)
SpecializeGenerator(g, b) ==
  IF g = <<>> THEN <<>>
  ELSE (IF Head(g).tag = "if" /\ Head(g).c = CondName
          THEN (IF b THEN Head(g).t ELSE Head(g).f)
          ELSE <<Head(g)>>) \o SpecializeGenerator(Tail(g), b)
SpecializeCompletion(c, b) ==
  CASE c.kind = "possiblyNormal" ->
         IF b = c.normalWhen THEN Normal(c.value) ELSE c.pending.completion
    [] c.kind = "joinedAbrupt" -> IF b THEN c.consequent ELSE c.alternate
    [] OTHER -> [kind |-> c.kind, value |-> SpecializeValue(c.value, b),
                 target |-> c.target]
Specialize(e, b) ==
  IF IsPossiblyNormal(e.completion) /\ b # e.completion.normalWhen
    THEN e.completion.pending
    ELSE Effects(SpecializeCompletion(e.completion, b), SpecializeGenerator(e.gen, b),
                 SpecializeMap(e.bindings, b), SpecializeMap(e.properties, b),
                 e.created)
\* s reproduces e: same completion, same instructions, no key of e lost, and
\* deltas that leave the same bindings and properties in the real environment
Reproduces(s, e) ==
  /\ s.completion = e.completion
  /\ s.gen = e.gen
  /\ DOMAIN e.bindings \subseteq DOMAIN s.bindings
  /\ DOMAIN e.properties \subseteq DOMAIN s.properties
  /\ Override(bindings, s.bindings) = Override(bindings, e.bindings)
  /\ Override(properties, s.properties) = Override(properties, e.properties)
Joined == pc \in {"compose", "apply"}

C10_AlwaysNormalized ==
  Completed =>
    /\ outcome.completion.value # Empty
    /\ (DirectCalls # {} /\ Calls("joinEffects") = {}) =>
         \A j \in DirectCalls :
           /\ outcome.completion.kind = program[log[j].node].completion.kind
           /\ outcome.completion.target = program[log[j].node].completion.target


\* the real environment, as it was when the call began and after the writes
\* of e
RealmIs(b, p, g, o) ==
  /\ bindings = b
  /\ properties = p
  /\ generator = g
  /\ createdObjects = o
RealmUntouched ==
  RealmIs([k \in BindingKeys |-> Original], [k \in PropertyKeys |-> Undefined], <<>>, {})
RealmWritten(e) ==
  RealmIs(Override([k \in BindingKeys |-> Original], e.bindings),
          Override([k \in PropertyKeys |-> Undefined], e.properties), e.gen, e.created)
\* the direct evaluations of a branch that ran (and so wrote the environment)
DirectWrites == {j \in DirectCalls : log[j].result = "ok"}

\* C11: the real environment (bindings, properties, instruction stream,
\* created objects) is as the call found it until applyEffects has run on the
\* joined Effects or a branch has been evaluated directly: in particular
\* before, during and after each sandboxed call, also one that ended with the
\* infeasible-path signal. A call writes it at most once: either the joined
\* Effects, or one branch, never the two branches one after the other.
C11_RealmWrittenOnce ==
  /\ Cardinality(DirectWrites) + Len(applied) <= 1
  /\ (DirectWrites = {} /\ applied = <<>>) => RealmUntouched
  /\ \A j \in DirectWrites : RealmWritten(program[log[j].node])
  /\ applied # <<>> => (applied[1] = joinedEffects /\ RealmWritten(joinedEffects))
  /\ pc \in {"sandbox1", "exit1", "catch1", "fork2", "sandbox2", "exit2", "catch2",
             "join", "compose", "apply"} => RealmUntouched

\* C11 witness: both sandboxed branches wrote the binding, each its own value,
\* and the real environment holds the one joined write
C11_Witness ==
  /\ Ended
  /\ Len(applied) = 1
  /\ DOMAIN eff1.bindings = BindingKeys
  /\ DOMAIN eff2.bindings = BindingKeys
  /\ \A k \in BindingKeys :
       /\ eff1.bindings[k] # eff2.bindings[k]
       /\ bindings[k] = Conditional(CondName, eff1.bindings[k], eff2.bindings[k])

\* C12: when a scoped sandbox call fails with something other than the
\* infeasible-path signal, the call of the evaluator ends with that failure:
\* no branch is evaluated as a fallback, joinEffects,
\* composeWithSavedCompletion and applyEffects are not called, the assumption
\* is popped and the real environment is as the call found it.
C12_FaultPropagates ==
  (\E i \in 1..Len(log) : log[i].op \in SandboxOps /\ log[i].result = "fault") =>
    /\ DirectCalls = {}
    /\ Calls("joinEffects") = {}
    /\ Calls("composeWithSavedCompletion") = {}
    /\ Calls("applyEffects") = {}
    /\ applied = <<>>
    /\ RealmUntouched
    /\ Ended => (outcome = Raised("fault") /\ pathConditions = InitialStack)

\* C12 witness: the consequent was captured, the alternate's sandbox failed,
\* and the call ended with the failure
C12_Witness ==
  /\ Ended
  /\ CallsOn("evaluateNodeForEffects", "consequent") # {}
  /\ DOMAIN eff1.bindings # {}
  /\ \E i \in CallsOn("evaluateNodeForEffects", "alternate") : log[i].result = "fault"
  /\ outcome.type = "fault"


\* the calls of the forking procedure, in the order they were made
IsForkCall(c) ==
  c.op \in SandboxOps \cup {"push", "pop", "joinEffects", "applyEffects",
                            "composeWithSavedCompletion"}
ForkLog == SelectSeq(log, IsForkCall)
\* the first seven calls of a fork: what is called, on what, how deep the
\* stack is at the call
ForkOrder ==
  << <<"push", "true", depth0>>,
     <<"evaluateNodeForEffects", "consequent", depth0 + 1>>,
     <<"pop", "true", depth0 + 1>>,
     <<"push", "false", depth0>>,
     <<IF ast.alternate THEN "evaluateNodeForEffects" ELSE "construct_empty_effects",
       "alternate", depth0 + 1>>,
     <<"pop", "false", depth0 + 1>>,
     <<"joinEffects", "both", depth0>> >>
Assumed(truth) ==
  \E i \in 1..Len(pathConditions) : pathConditions[i] = [cond |-> CondName, truth |-> truth]

\* C13: the calls of a fork come in one order: push condition = true, sandbox
\* the consequent, pop; push condition = false, sandbox the alternate (or
\* build empty Effects), pop; joinEffects; composeWithSavedCompletion if at
\* all; applyEffects. The assumptions condition = true and condition = false
\* are never on the stack together, and when joinEffects is called both
\* scoped calls have ended without a signal and the stack is back at the
\* depth the call began with.
C13_ForkOrder ==
  LET f == ForkLog
  IN  /\ Len(f) <= 9
      /\ \A k \in 1..Len(f) :
           /\ k <= 7 => <<f[k].op, f[k].node, f[k].depth>> = ForkOrder[k]
           /\ k >= 4 => f[2].result = "ok"
           /\ k >= 7 => f[5].result = "ok"
           /\ k = 8 => f[k].op \in {"composeWithSavedCompletion", "applyEffects"}
           /\ k = 9 => (f[8].op = "composeWithSavedCompletion" /\ f[9].op = "applyEffects")
           /\ k >= 7 => f[k].depth = depth0
      /\ ~(Assumed(TRUE) /\ Assumed(FALSE))
      /\ Len(pathConditions) <= depth0 + 1
      /\ pc \in {"join", "compose", "apply", "finish"} => pathConditions = InitialStack

\* C13 witness: a fork that went through all nine calls, the alternate
\* present, under an enclosing assumption
C13_Witness ==
  /\ Ended
  /\ Len(ForkLog) = 9
  /\ ast.alternate
  /\ depth0 > 0


\* the guards of the forks whose abrupt branch a pending record holds
RECURSIVE Guards(_)
Guards(c) ==
  IF ~IsPossiblyNormal(c) THEN {}
  ELSE {c.joinCondition}
         \cup (IF "enclosing" \in DOMAIN c THEN Guards(c.enclosing) ELSE {})
ComposeCalls == Calls("composeWithSavedCompletion")
\* composeWithSavedCompletion is called as often as a PossiblyNormal join
\* asks for, and before applyEffects
ComposedWhenPossiblyNormal ==
  /\ ComposeCalls # {} => IsPossiblyNormal(joinedEffects.completion)
  /\ Cardinality(ComposeCalls) <= 1
  /\ \A i \in ComposeCalls, j \in Calls("applyEffects") : i < j
  /\ (Calls("applyEffects") # {} /\ IsPossiblyNormal(joinedEffects.completion))
       => Cardinality(ComposeCalls) = 1
\* a step keeps the guards the pending record holds, and adds this fork's
\* guard exactly when it composes
GuardsAccumulate ==
  Guards(savedCompletion') =
    Guards(savedCompletion)
      \cup (IF Len(log') > Len(log) /\ log'[Len(log')].op = "composeWithSavedCompletion"
              THEN {CondName} ELSE {})

C15_JoinedCompletionByKinds ==
  Calls("joinEffects") # {} =>
    LET r1 == eff1.completion
        r2 == eff2.completion
        j == joinedEffects.completion
    IN  /\ (IsNormal(r1) /\ IsNormal(r2)) =>
             j = Normal(Conditional(CondName, r1.value, r2.value))
        /\ (IsAbrupt(r1) /\ IsNormal(r2)) =>
             (IsPossiblyNormal(j) /\ j.value = r2.value /\ j.pending = eff1)
        /\ (IsNormal(r1) /\ IsAbrupt(r2)) =>
             (IsPossiblyNormal(j) /\ j.value = r1.value /\ j.pending = eff2)
        /\ (IsAbrupt(r1) /\ IsAbrupt(r2) /\ r1.kind = r2.kind /\ r1.target = r2.target) =>
             (IsAbrupt(j) /\ j.kind = r1.kind /\ j.target = r1.target)
        /\ (IsAbrupt(r1) /\ IsAbrupt(r2)) => IsAbrupt(j)
        /\ (Ended /\ IsAbrupt(j)) =>
             /\ outcome = Threw(j)
             /\ applied = <<joinedEffects>>
             /\ RealmWritten(joinedEffects)

\* C15 witness: both branches broke to the same label after writing the
\* binding, the joined write is in the real environment and the break is raised
C15_Witness ==
  /\ Ended
  /\ Calls("joinEffects") # {}
  /\ eff1.completion = Abrupt("break", Empty, "L")
  /\ eff2.completion = Abrupt("break", Empty, "L")
  /\ DOMAIN eff1.bindings # {}
  /\ outcome.type = "throw"
  /\ outcome.completion.kind = "break"
  /\ outcome.completion.target = "L"
  /\ \E k \in BindingKeys : bindings[k] # Original


\* C16: after a scoped call has ended with the infeasible-path signal, the
\* fallback branch is evaluated with the path-condition stack as the call
\* found it: the assumption of the infeasible branch is popped, and neither it
\* nor the opposite assumption is on the stack or pushed afterwards.
C16_FallbackAtCallDepth ==
  \A i \in InfeasibleSandboxCalls :
    /\ \A j \in DirectCalls : j > i + 1 /\ log[j].depth = depth0
    /\ \A k \in Calls("push") : k < i
    /\ pc \in {"catch1", "catch2", "done"} =>
         (pathConditions = InitialStack /\ ~Assumed(TRUE) /\ ~Assumed(FALSE))

\* C16 witness: under an enclosing assumption the alternate proved infeasible
\* and the consequent was then evaluated directly
C16_Witness ==
  /\ Ended
  /\ depth0 > 0
  /\ \E i \in InfeasibleSandboxCalls : log[i].node = "alternate"
  /\ \E j \in DirectCalls : log[j].node = "consequent" /\ log[j].result = "ok"

\* the evaluations of the consequent, sandboxed or direct
ConsequentRuns ==
  {i \in 1..Len(log) :
     /\ log[i].op \in DirectOps \cup {"evaluateNodeForEffects"}
     /\ log[i].node = "consequent"}

\* C17: without an alternate, once the consequent has been captured, the
\* inverse assumption is pushed, construct_empty_effects is called under it,
\* and it is popped. If that raised infeasible-path, the consequent is
\* evaluated a second time, directly, the captured Effects are not applied or
\* joined, and the real environment holds the writes of one execution of the
\* consequent; otherwise the captured Effects are joined with the empty
\* Effects and the consequent is not evaluated again.
C17_NoAlternateFork ==
  LET f == ForkLog
  IN  (~ast.alternate /\ Len(f) >= 3 /\ f[2].result = "ok") =>
        /\ Len(f) >= 4 => (f[4].op = "push" /\ f[4].node = "false")
        /\ Len(f) >= 5 => (f[5].op = "construct_empty_effects" /\ f[5].depth = depth0 + 1)
        /\ Len(f) >= 6 => (f[6].op = "pop" /\ f[6].node = "false")
        /\ Ended => Len(f) >= 6
        /\ (Ended /\ f[5].result = "infeasible") =>
             /\ Calls("joinEffects") = {}
             /\ applied = <<>>
             /\ Cardinality(ConsequentRuns) = 2
             /\ OnlyDirect("consequent", "evaluate")
             /\ Completed => RealmWritten(eff1)
             /\ Completed => outcome.type = (IF IsAbrupt(eff1.completion) THEN "throw"
                                             ELSE "return")
        /\ (Ended /\ f[5].result = "ok") =>
             /\ eff2 = construct_empty_effects
             /\ Cardinality(Calls("joinEffects")) = 1
             /\ Cardinality(ConsequentRuns) = 1
             /\ DirectCalls = {}
             /\ applied = <<joinedEffects>>

\* C17 witness: the consequent emitted an instruction and wrote the binding in
\* its sandbox, the inverse assumption proved infeasible, and the real
\* environment holds that instruction once
C17_Witness ==
  /\ Completed
  /\ ~ast.alternate
  /\ \E i \in InfeasibleSandboxCalls : log[i].op = "construct_empty_effects"
  /\ Len(generator) = 1
  /\ DOMAIN eff1.bindings # {}

\* the three routes an abstract condition can take
RouteConsequent == CallsOn("evaluate", "consequent") # {} /\ ForkCalls = {}
RouteAlternate == \E i \in Calls("mightNotBeFalse") : log[i].result = "false"
RouteFork == ForkCalls # {}

\* C18: for an abstract condition mightNotBeTrue is asked first and
\* mightNotBeFalse only after mightNotBeTrue answered true; if both would
\* answer false the consequent is the branch evaluated and never the
\* alternate; the fork is entered only after both answered true; and a call
\* takes at most one of the three routes.
C18_QueryOrder ==
  exprValue.tag = "abstract" =>
    /\ Cardinality(Calls("mightNotBeTrue")) <= 1
    /\ Cardinality(Calls("mightNotBeFalse")) <= 1
    /\ \A j \in Calls("mightNotBeFalse") :
         \E i \in Calls("mightNotBeTrue") : i < j /\ log[i].result = "true"
    /\ \A j \in DirectCalls \cup ForkCalls : Calls("mightNotBeTrue") # {}
    /\ (exprValue.mnbt = "false" /\ exprValue.mnbf = "false") =>
         /\ Calls("mightNotBeFalse") = {}
         /\ \A j \in DirectCalls : log[j].node = "consequent"
         /\ Ended => OnlyDirect("consequent", "evaluate")
    /\ RouteFork =>
         /\ \E i \in Calls("mightNotBeTrue") : log[i].result = "true"
         /\ \E i \in Calls("mightNotBeFalse") : log[i].result = "true"
    /\ ~(RouteConsequent /\ RouteAlternate)
    /\ ~(RouteConsequent /\ RouteFork)
    /\ ~(RouteAlternate /\ RouteFork)

\* C18 witness: both queries would answer false, and the consequent was
\* evaluated
C18_Witness ==
  /\ Ended
  /\ exprValue.tag = "abstract"
  /\ exprValue.mnbt = "false"
  /\ exprValue.mnbf = "false"
  /\ ast.alternate
  /\ \E j \in DirectCalls : log[j].node = "consequent" /\ log[j].result = "ok"

====
